---- MODULE Spec2Model ----
(***************************************************************************)
(* Model of src/main.rs of 1001albums_groupme_bot: one run of main(), with *)
(* the two retry loops get_album and send_message, the environment, the    *)
(* generator service and the GroupMe webhook.                              *)
(***************************************************************************)
EXTENDS Integers, Sequences, FiniteSets, TLC

(* ---------------- bounds of the model ---------------- *)

\* retry limits 0..MaxRetryLimit are explored besides the hardcoded one
MaxRetryLimit == 3

(* ---------------- program constants ---------------- *)

GENERATOR_URL == "https://1001albumsgenerator.com"
GROUPME_API_URL == "https://api.groupme.com/v3/bots/post"
SPOTIFY_URL == "https://open.spotify.com/album"

\* main: let retry_limit: u8 = 10
RETRY_LIMIT == 10
\* main: let sleep_secs: u64 = 60
SLEEP_SECS == 60
\* the largest value of `retry: u8` and of `retry_limit: u8`
U8_MAX == 255

(* ---------------- inputs ---------------- *)

\* values of retry_limit: get_album and send_message take it as a parameter
RetryLimits == (0..MaxRetryLimit) \cup {RETRY_LIMIT}

\* the two environment variables main reads
EnvVars == {"BOT_ID", "GROUP"}

\* HTTP status codes a response may carry
Statuses == {200, 204, 304, 500}

\* JSON values found under currentAlbum.<field>; indexing a missing key
\* yields Null in serde_json, so an absent field is the Null value
JsonString == [kind |-> "string", val |-> "x"]
JsonNull == [kind |-> "null", val |-> ""]
JsonNumber == [kind |-> "number", val |-> ""]
JsonValues == {JsonString, JsonNull, JsonNumber}

AlbumFields == {"name", "artist", "releaseDate", "spotifyId"}

\* a response body: not decodable as JSON, or a JSON document
NotJson == [json |-> FALSE, currentAlbum |-> [f \in AlbumFields |-> JsonNull]]
Bodies == {NotJson} \cup
          {[json |-> TRUE, currentAlbum |-> a] : a \in [AlbumFields -> JsonValues]}

\* the local date read by get_message
Dates == {<<3, 15, 2024>>}

(* ---------------- values ---------------- *)

NoErr == [kind |-> "none", status |-> 0, attempt |-> 0]
\* reqwest::Error, tagged with the attempt that produced it
Error(kind, status, attempt) == [kind |-> kind, status |-> status, attempt |-> attempt]

None == [tag |-> "None", err |-> NoErr]
Ok == [tag |-> "Ok", err |-> NoErr]
Err(e) == [tag |-> "Err", err |-> e]
\* the thread panicked inside the function (unwrap on None)
Panicked == [tag |-> "Panic", err |-> NoErr]

NoAlbum == [album |-> "", artist |-> "", release_year |-> "", spotify_link |-> <<>>]
NoMessage == <<>>

\* one line of observable I/O
Event(ev, r, n) == [ev |-> ev, r |-> r, n |-> n]

VARIABLES
    env,          \* which environment variables are set
    retry_limit,  \* the retry_limit passed to both loops
    pc,           \* position of the single thread
    get_retry,    \* get_album's local `retry`
    send_retry,   \* send_message's local `retry`
    json,         \* body of the 2xx response get_album decoded
    album,        \* the Album main holds
    message,      \* the text built by get_message
    get_result,   \* what get_album returned
    send_result,  \* what send_message returned
    log,          \* requests, diagnostics, sleeps and confirmations, in order
    slept,        \* seconds spent in thread::sleep
    delivered,    \* POSTs the webhook actually processed
    panic_msg,    \* message of the panic that ended the run
    exit_code     \* process exit code, -1 while running

vars == <<env, retry_limit, pc, get_retry, send_retry, json, album, message,
          get_result, send_result, log, slept, delivered, panic_msg, exit_code>>


(* ---------------- helpers ---------------- *)

\* indices of the log entries of one kind
Indices(ev) == {i \in DOMAIN log : log[i].ev = ev}
Count(ev) == Cardinality(Indices(ev))

\* Option<&str> as a sequence of length 0 or 1: Value::as_str
as_str(v) == IF v.kind = "string" THEN <<v.val>> ELSE <<>>

\* RequestBuilder::send: a connection failure or a timeout is an Err,
\* anything the server answered is an Ok(Response)
send(transport, attempt) ==
    IF transport = "response" THEN Ok ELSE Err(Error(transport, 0, attempt))

\* a check that takes 200 for the only success
error_for_status_only_200(status, attempt) ==
    IF status # 200 THEN Err(Error("status", status, attempt)) ELSE Ok

\* Response::error_for_status: Err for a 4xx or 5xx status, Ok otherwise
error_for_status(status, attempt) ==
    IF status \in 400..599 THEN Err(Error("status", status, attempt)) ELSE Ok

\* Response::json::<serde_json::Value>
decode(body, attempt) ==
    IF body.json THEN Ok ELSE Err(Error("decode", 0, attempt))

\* main: the two URLs built from GROUP
group == "grp"
generator_api_url == <<GENERATOR_URL, "/api/v1/groups/", group>>
generator_group_url == <<GENERATOR_URL, "/groups/", group>>

\* Option::unwrap of a Some; the panic on a None is UnwrapPanics
unwrap(opt) == IF opt = <<>> THEN "" ELSE opt[1]

\* get_album, lines 38-50: the Album built from a decoded body whose four
\* fields are strings
AlbumOf(body) ==
    [album |-> unwrap(as_str(body.currentAlbum["name"])),
     artist |-> unwrap(as_str(body.currentAlbum["artist"])),
     release_year |-> unwrap(as_str(body.currentAlbum["releaseDate"])),
     spotify_link |-> <<SPOTIFY_URL, "/", unwrap(as_str(body.currentAlbum["spotifyId"]))>>]

\* an extraction that only insists on the album name
UnwrapPanicsNameOnly(body) == as_str(body.currentAlbum["name"]) = <<>>

\* get_album, lines 39-48: some .unwrap() meets a None
UnwrapPanics(body) == \E f \in AlbumFields : as_str(body.currentAlbum[f]) = <<>>

\* a guard that allows one retry too many
GetShouldRetryInclusive(retry, limit) == retry <= limit

\* get_album, line 54: the guard of the retry arm
GetShouldRetry(retry, limit) == retry < limit

\* a guard that allows one retry too many
SendShouldRetryInclusive(retry, limit) == retry <= limit

\* a guard that allows one retry too few
SendShouldRetryOffByOne(retry, limit) == retry + 1 < limit

\* send_message, line 116: the guard of the retry arm
SendShouldRetry(retry, limit) == retry < limit

\* get_message: the text, as the tuple of the values format! interpolates
get_message(a, url, date) ==
    <<"1001albumsgenerator ", date[1], "/", date[2], "/", date[3], "\n\n",
      a.album, " by ", a.artist, " (", a.release_year, ")\n\n",
      a.spotify_link, "\n\n", "Group: ", url, "\n">>

\* a panic of the main thread: message on stderr, exit code 101
Panic(msg) ==
    /\ pc' = "panic"
    /\ panic_msg' = msg
    /\ exit_code' = 101

(* ---------------- initial state ---------------- *)

InitWith(limits) ==
    /\ env \in [EnvVars -> BOOLEAN]
    /\ retry_limit \in limits
    /\ pc = "main"
    /\ get_retry = 0
    /\ send_retry = 0
    /\ json = NotJson
    /\ album = NoAlbum
    /\ message = NoMessage
    /\ get_result = None
    /\ send_result = None
    /\ log = <<>>
    /\ slept = 0
    /\ delivered = 0
    /\ panic_msg = ""
    /\ exit_code = -1

Init == InitWith(RetryLimits)

(* ---------------- actions ---------------- *)

\* a main that falls back to an empty group name when GROUP is not set
MainStartGroupOptional ==
    /\ pc = "main"
    /\ IF ~env["BOT_ID"] THEN Panic("BOT_ID is not set")
       ELSE /\ pc' = "get_album"
            /\ UNCHANGED <<panic_msg, exit_code>>
    /\ get_retry' = 0
    /\ UNCHANGED <<env, retry_limit, send_retry, json, album, message,
                   get_result, send_result, log, slept, delivered>>

\* main, lines 133-148: read the configuration, then call get_album
MainStart ==
    /\ pc = "main"
    /\ IF ~env["BOT_ID"] THEN Panic("BOT_ID is not set")
       ELSE IF ~env["GROUP"] THEN Panic("GROUP is not set")
       ELSE /\ pc' = "get_album"
            /\ UNCHANGED <<panic_msg, exit_code>>
    /\ get_retry' = 0
    /\ UNCHANGED <<env, retry_limit, send_retry, json, album, message,
                   get_result, send_result, log, slept, delivered>>

\* a main that goes on with a default Album when get_album fails
GetReturnErrContinue(e, events) ==
    /\ get_result' = Err(e)
    /\ log' = log \o events
    /\ pc' = "get_message"
    /\ UNCHANGED <<get_retry, album, panic_msg, exit_code>>

\* get_album returns Err(e) to main, whose .expect panics (lines 148-149)
GetReturnErr(e, events) ==
    /\ get_result' = Err(e)
    /\ log' = log \o events
    /\ Panic("Could not get album")
    /\ UNCHANGED <<get_retry, album>>

\* a diagnostic printed with the retry number before its increment
GetDiagStale(retry) == Event("DIAG_GET", "", retry - 1)

\* get_album, lines 56-60: the two lines printed before a retry, with the
\* retry number they show
GetDiag(retry) == Event("DIAG_GET", "", retry)

\* get_album, lines 55-61: retry += 1 on a u8, the diagnostic, the call of
\* thread::sleep.  An overflowing += panics in a debug build and wraps in a
\* release build.
GetRetry(req) ==
    IF get_retry < U8_MAX THEN
        /\ get_retry' = get_retry + 1
        /\ log' = log \o <<req, GetDiag(get_retry + 1)>>
        /\ pc' = "get_sleep"
        /\ UNCHANGED <<json, album, get_result, panic_msg, exit_code>>
    ELSE
        \/ /\ get_retry' = (get_retry + 1) % (U8_MAX + 1)
           /\ log' = log \o <<req, GetDiag((get_retry + 1) % (U8_MAX + 1))>>
           /\ pc' = "get_sleep"
           /\ UNCHANGED <<json, album, get_result, panic_msg, exit_code>>
        \/ /\ get_result' = Panicked
           /\ log' = log \o <<req>>
           /\ Panic("attempt to add with overflow")
           /\ UNCHANGED <<get_retry, json, album>>

\* get_album, lines 33-66: one iteration of the loop
GetAttempt ==
    /\ pc = "get_album"
    /\ \E transport \in {"connect", "timeout", "response"}, status \in Statuses,
          body \in Bodies :
        LET n == Count("GET") + 1
            sent == send(transport, n)
            resp == error_for_status(status, n)
            req == Event("GET", transport, IF transport = "response" THEN status ELSE 0)
        IN  IF sent.tag = "Err" THEN
                \* line 34: `?` returns the error of send()
                /\ GetReturnErr(sent.err, <<req>>)
                /\ UNCHANGED json
            ELSE IF resp.tag = "Err" THEN
                IF GetShouldRetry(get_retry, retry_limit) THEN
                    GetRetry(req)
                ELSE
                    /\ GetReturnErr(resp.err, <<req>>)
                    /\ UNCHANGED json
            ELSE IF decode(body, n).tag = "Err" THEN
                \* line 37: `?` returns the decoding error
                /\ json' = body
                /\ GetReturnErr(decode(body, n).err, <<req>>)
            ELSE IF UnwrapPanics(body) THEN
                /\ json' = body
                /\ get_result' = Panicked
                /\ log' = log \o <<req>>
                /\ Panic("called Option::unwrap() on a None value")
                /\ UNCHANGED <<get_retry, album>>
            ELSE
                /\ json' = body
                /\ album' = AlbumOf(body)
                /\ get_result' = Ok
                /\ log' = log \o <<req>>
                /\ pc' = "get_message"
                /\ UNCHANGED <<get_retry, panic_msg, exit_code>>
    /\ UNCHANGED <<env, retry_limit, send_retry, message, send_result, slept,
                   delivered>>

\* a sleep whose length grows with the retry number
GetWakeBackoff ==
    /\ pc = "get_sleep"
    /\ log' = log \o <<Event("SLEEP", "get", SLEEP_SECS * get_retry)>>
    /\ slept' = slept + SLEEP_SECS * get_retry
    /\ pc' = "get_album"
    /\ UNCHANGED <<env, retry_limit, get_retry, send_retry, json, album, message,
                   get_result, send_result, delivered, panic_msg, exit_code>>

\* get_album, line 61: thread::sleep returns
GetWake ==
    /\ pc = "get_sleep"
    /\ log' = log \o <<Event("SLEEP", "get", SLEEP_SECS)>>
    /\ slept' = slept + SLEEP_SECS
    /\ pc' = "get_album"
    /\ UNCHANGED <<env, retry_limit, get_retry, send_retry, json, album, message,
                   get_result, send_result, delivered, panic_msg, exit_code>>

\* a send that goes on counting where the fetch stopped
GetMessageSharedRetry ==
    /\ pc = "get_message"
    /\ \E date \in Dates : message' = get_message(album, generator_group_url, date)
    /\ send_retry' = get_retry
    /\ pc' = "send_message"
    /\ UNCHANGED <<env, retry_limit, get_retry, json, album, get_result,
                   send_result, log, slept, delivered, panic_msg, exit_code>>

\* main, lines 151-154, and send_message, lines 98-103
GetMessage ==
    /\ pc = "get_message"
    /\ \E date \in Dates : message' = get_message(album, generator_group_url, date)
    /\ send_retry' = 0
    /\ pc' = "send_message"
    /\ UNCHANGED <<env, retry_limit, get_retry, json, album, get_result,
                   send_result, log, slept, delivered, panic_msg, exit_code>>

\* a send whose error is dropped instead of being returned
SendReturnErrSwallowed(e, events) ==
    /\ send_result' = Ok
    /\ log' = log \o events
    /\ pc' = "exit"
    /\ exit_code' = 0
    /\ UNCHANGED <<send_retry, panic_msg>>

\* a send that keeps the error of its first attempt and returns that one
SendReturnFirstErr(e, events) ==
    /\ send_result' = Err([e EXCEPT !.attempt = 1])
    /\ log' = log \o events
    /\ Panic("Could not send message")
    /\ UNCHANGED send_retry

\* send_message returns Err(e) to main, whose .expect panics (lines 154-155)
SendReturnErr(e, events) ==
    /\ send_result' = Err(e)
    /\ log' = log \o events
    /\ Panic("Could not send message")
    /\ UNCHANGED send_retry

\* a retry arm that waits for a condition that never comes true
SendRetrySpin(req) ==
    /\ log' = log \o <<req>>
    /\ pc' = "send_spin"
    /\ UNCHANGED <<send_retry, send_result, panic_msg, exit_code>>

\* send_message, lines 118-122: the two lines printed before a retry, with
\* the retry number they show
SendDiag(retry) == Event("DIAG_SEND", "", retry)

\* send_message, lines 117-123: retry += 1 on a u8, the diagnostic, the call
\* of thread::sleep.  An overflowing += panics in a debug build and wraps in
\* a release build.
SendRetry(req) ==
    IF send_retry < U8_MAX THEN
        /\ send_retry' = send_retry + 1
        /\ log' = log \o <<req, SendDiag(send_retry + 1)>>
        /\ pc' = "send_sleep"
        /\ UNCHANGED <<send_result, panic_msg, exit_code>>
    ELSE
        \/ /\ send_retry' = (send_retry + 1) % (U8_MAX + 1)
           /\ log' = log \o <<req, SendDiag((send_retry + 1) % (U8_MAX + 1))>>
           /\ pc' = "send_sleep"
           /\ UNCHANGED <<send_result, panic_msg, exit_code>>
        \/ /\ send_result' = Panicked
           /\ log' = log \o <<req>>
           /\ Panic("attempt to add with overflow")
           /\ UNCHANGED send_retry

\* whether the webhook can have processed the POST it was sent
MayProcess(transport, status, processed) ==
    /\ transport = "connect" => ~processed
    /\ (transport = "response" /\ status \in 200..299) => processed

\* send_message, lines 104-128: one iteration of the loop
SendAttempt ==
    /\ pc = "send_message"
    /\ \E transport \in {"connect", "timeout", "response"}, status \in Statuses,
          processed \in BOOLEAN :
        /\ MayProcess(transport, status, processed)
        /\ delivered' = IF processed THEN delivered + 1 ELSE delivered
        /\ LET n == Count("POST") + 1
               sent == send(transport, n)
               resp == error_for_status(status, n)
               req == Event("POST", transport, IF transport = "response" THEN status ELSE 0)
           IN  IF sent.tag = "Err" THEN
                   \* line 108: `?` returns the error of send()
                   SendReturnErr(sent.err, <<req>>)
               ELSE IF resp.tag = "Err" THEN
                   IF SendShouldRetry(send_retry, retry_limit) THEN
                       SendRetry(req)
                   ELSE
                       SendReturnErr(resp.err, <<req>>)
               ELSE
                   /\ log' = log \o <<req, Event("CONFIRM", "", 0)>>
                   /\ send_result' = Ok
                   /\ pc' = "exit"
                   /\ exit_code' = 0
                   /\ UNCHANGED <<send_retry, panic_msg>>
    /\ UNCHANGED <<env, retry_limit, get_retry, json, album, message, get_result,
                   slept>>

\* send_message, line 123: thread::sleep returns
SendWake ==
    /\ pc = "send_sleep"
    /\ log' = log \o <<Event("SLEEP", "send", SLEEP_SECS)>>
    /\ slept' = slept + SLEEP_SECS
    /\ pc' = "send_message"
    /\ UNCHANGED <<env, retry_limit, get_retry, send_retry, json, album, message,
                   get_result, send_result, delivered, panic_msg, exit_code>>

Next ==
    \/ MainStart
    \/ GetAttempt
    \/ GetWake
    \/ GetMessage
    \/ SendAttempt
    \/ SendWake

Spec == Init /\ [][Next]_vars

\* the single thread keeps running: every HTTP attempt and every sleep
\* returns, so a step that is possible is eventually taken
FairSpec == Init /\ [][Next]_vars /\ WF_vars(Next)

\* The runs explored with retry_limit = U8_MAX: the services answer with an
\* error status until the first or the last permitted attempt of a loop, and
\* the webhook processes at most one POST.  The retry counters still take
\* every value from 0 to U8_MAX in both loops.
BoundaryRun ==
    /\ get_result # None => get_retry \in {0, U8_MAX}
    /\ send_result # None => send_retry \in {0, U8_MAX}
    /\ delivered <= 1

InitU8 == InitWith(RetryLimits \cup {U8_MAX})

NextU8 == Next /\ (retry_limit = U8_MAX => BoundaryRun')

\* the runs of Spec, and the boundary runs with the largest u8 as the limit
SpecU8 == InitU8 /\ [][NextU8]_vars

(* ---------------- type invariant ---------------- *)

TypeOK ==
    /\ env \in [EnvVars -> BOOLEAN]
    /\ retry_limit \in 0..U8_MAX
    /\ pc \in {"main", "get_album", "get_sleep", "get_message", "send_message",
               "send_sleep", "exit", "panic"}
    /\ get_retry \in 0..U8_MAX
    /\ send_retry \in 0..U8_MAX
    /\ json \in Bodies
    /\ get_result.tag \in {"None", "Ok", "Err", "Panic"}
    /\ send_result.tag \in {"None", "Ok", "Err", "Panic"}
    /\ slept \in Nat
    /\ delivered \in Nat
    /\ exit_code \in {-1, 0, 101}

(* ---------------- what a run has done so far ---------------- *)

\* the requests of one kind, in order
Requests(ev) == SelectSeq(log, LAMBDA e : e.ev = ev)

\* the sleeps finished by one loop ("get" or "send")
Sleeps(loop) == SelectSeq(log, LAMBDA e : e.ev = "SLEEP" /\ e.r = loop)

\* the retry numbers printed by one loop ("DIAG_GET" or "DIAG_SEND")
Diags(ev) == [i \in DOMAIN Requests(ev) |-> Requests(ev)[i].n]

RECURSIVE SumSecs(_)
SumSecs(s) == IF s = <<>> THEN 0 ELSE Head(s).n + SumSecs(Tail(s))

\* a request that ended in an error of the transport layer: no answer
\* (connection failure, timeout) or an answer with an error status
TransportError(e) == e.r # "response" \/ e.n \in 400..599

\* a request answered with a 2xx status
Is2xx(e) == e.r = "response" /\ e.n \in 200..299

AllFailed(reqs) == \A i \in DOMAIN reqs : TransportError(reqs[i])

\* the decoded body lacks a field or holds a non-string in one
Malformed == ~json.json \/ \E f \in AlbumFields : json.currentAlbum[f].kind # "string"

GetDone == get_result.tag # "None"
SendDone == send_result.tag # "None"

(* ---------------- claims ---------------- *)

\* C1: when every attempt of a retry loop fails, the loop makes exactly
\* retry_limit + 1 attempts, sleeps exactly retry_limit times for
\* retry_limit * SLEEP_SECS seconds in all, and returns the failure.
C1_AllFailExhausts ==
    /\ (GetDone /\ AllFailed(Requests("GET"))) =>
          /\ Len(Requests("GET")) = retry_limit + 1
          /\ Len(Sleeps("get")) = retry_limit
          /\ SumSecs(Sleeps("get")) = retry_limit * SLEEP_SECS
          /\ get_result.tag = "Err"
    /\ (SendDone /\ AllFailed(Requests("POST"))) =>
          /\ Len(Requests("POST")) = retry_limit + 1
          /\ Len(Sleeps("send")) = retry_limit
          /\ SumSecs(Sleeps("send")) = retry_limit * SLEEP_SECS
          /\ send_result.tag = "Err"

\* C2: an operation that fails k < retry_limit times and then succeeds makes
\* the loop return success after k + 1 attempts and k sleeps.  A loop that
\* has returned after k < retry_limit attempts, all of them failed, has given
\* up on such an operation before its successful attempt k + 1; a loop that
\* saw the success has made k + 1 attempts and k sleeps and nothing after it.
C2_FailKThenSucceed ==
    /\ GetDone /\ Len(Requests("GET")) < retry_limit => ~AllFailed(Requests("GET"))
    /\ SendDone /\ Len(Requests("POST")) < retry_limit => ~AllFailed(Requests("POST"))
    /\ get_result.tag = "Ok" =>
          Len(Sleeps("get")) = Len(Requests("GET")) - 1
    /\ send_result.tag = "Ok" =>
          /\ Len(Sleeps("send")) = Len(Requests("POST")) - 1
          /\ log[Len(log)].ev = "CONFIRM"

\* C3: a loop never returns a transport-layer error (connection failure,
\* timeout, error status) while retries remain under the limit.
C3_TransportErrorsRetried ==
    /\ (get_result.tag = "Err" /\ get_result.err.kind \in {"connect", "timeout", "status"})
          => get_retry = retry_limit
    /\ (send_result.tag = "Err" /\ send_result.err.kind \in {"connect", "timeout", "status"})
          => send_retry = retry_limit

\* C4: with retry_limit = 0 a failing first attempt is propagated at once:
\* one attempt, no sleep, no retry diagnostic, the error returned.
C4_ZeroLimitPropagates ==
    retry_limit = 0 =>
        /\ (Requests("GET") # <<>> /\ TransportError(Requests("GET")[1])) =>
              /\ Len(Requests("GET")) = 1
              /\ Sleeps("get") = <<>>
              /\ Requests("DIAG_GET") = <<>>
              /\ get_result.tag = "Err"
              /\ pc = "panic"
        /\ (Requests("POST") # <<>> /\ TransportError(Requests("POST")[1])) =>
              /\ Len(Requests("POST")) = 1
              /\ Sleeps("send") = <<>>
              /\ Requests("DIAG_SEND") = <<>>
              /\ send_result.tag = "Err"
              /\ pc = "panic"

\* a send with limit 0 whose only POST was answered with an error status
C4_Witness ==
    /\ retry_limit = 0
    /\ send_result.tag = "Err"
    /\ send_result.err.kind = "status"
    /\ get_result.tag = "Ok"

\* C5: a loop makes at most retry_limit + 1 attempts and at most retry_limit
\* retries.
C5_AttemptsBounded ==
    /\ Len(Requests("GET")) <= retry_limit + 1
    /\ Len(Requests("POST")) <= retry_limit + 1
    /\ get_retry <= retry_limit
    /\ send_retry <= retry_limit
    /\ Len(Requests("DIAG_GET")) <= retry_limit
    /\ Len(Requests("DIAG_SEND")) <= retry_limit

\* both loops have used every attempt the limit allows
C5_Witness ==
    /\ retry_limit = RETRY_LIMIT
    /\ Len(Requests("GET")) = retry_limit + 1
    /\ Len(Requests("POST")) = retry_limit + 1
    /\ get_retry = retry_limit
    /\ send_retry = retry_limit

\* the attempts of the fetch that did not yield an Album: transport errors
\* and answers whose body could not be interpreted
GetFailed ==
    LET reqs == Requests("GET")
    IN  Cardinality({i \in DOMAIN reqs :
            \/ TransportError(reqs[i])
            \/ i = Len(reqs) /\ GetDone /\ Malformed})

\* the attempts of the send that did not deliver
SendFailed ==
    LET reqs == Requests("POST")
    IN  Cardinality({i \in DOMAIN reqs : TransportError(reqs[i])})

\* C6 as stated: when a loop has returned, it has slept once per failed
\* attempt, for (failed attempts) * SLEEP_SECS seconds in all.
C6_SleepPerFailure ==
    /\ GetDone =>
          /\ Len(Sleeps("get")) = GetFailed
          /\ SumSecs(Sleeps("get")) = GetFailed * SLEEP_SECS
    /\ SendDone =>
          /\ Len(Sleeps("send")) = SendFailed
          /\ SumSecs(Sleeps("send")) = SendFailed * SLEEP_SECS

\* C6 amended: when a loop has returned, it has slept once per failed
\* attempt except the one whose failure it returned, SLEEP_SECS seconds each
\* time: as many sleeps as failures when it returned success, one fewer when
\* it returned a failure.
C6_SleepPerRetriedFailure ==
    /\ GetDone =>
          /\ Len(Sleeps("get")) = GetFailed - (IF get_result.tag = "Ok" THEN 0 ELSE 1)
          /\ SumSecs(Sleeps("get")) = Len(Sleeps("get")) * SLEEP_SECS
    /\ SendDone =>
          /\ Len(Sleeps("send")) = SendFailed - (IF send_result.tag = "Ok" THEN 0 ELSE 1)
          /\ SumSecs(Sleeps("send")) = Len(Sleeps("send")) * SLEEP_SECS
    /\ slept = (Len(Sleeps("get")) + Len(Sleeps("send"))) * SLEEP_SECS

\* a fetch that gave up after exhausting three retries: four failures, three
\* sleeps
C6_Witness ==
    /\ retry_limit = 3
    /\ get_result.tag = "Err"
    /\ get_result.err.kind = "status"
    /\ GetFailed = 4
    /\ Len(Sleeps("get")) = 3

\* C7: a 2xx answer to the GET whose body is not JSON or lacks a string in
\* one of the four fields ends the run in failure at once: that GET is the
\* last thing the run did, so no GET, sleep, diagnostic or POST follows it.
C7_MalformedIsFatal ==
    \A i \in DOMAIN log :
        (log[i].ev = "GET" /\ Is2xx(log[i]) /\ Malformed) =>
            /\ i = Len(log)
            /\ get_result.tag \in {"Err", "Panic"}
            /\ get_result.tag = "Err" => get_result.err.kind = "decode"
            /\ Requests("POST") = <<>>
            /\ message = NoMessage
            /\ pc = "panic"
            /\ exit_code = 101

\* a body with a missing artist arrived after two retries, eight remaining
C7_Witness ==
    /\ retry_limit = RETRY_LIMIT
    /\ get_retry = 2
    /\ Is2xx(log[Len(log)])
    /\ json.json
    /\ json.currentAlbum["artist"] = JsonNull
    /\ json.currentAlbum["name"] = JsonString
    /\ get_result.tag = "Panic"

\* C8: when the first POST is answered 500 and retry_limit >= 1 the send goes
\* on to a second POST, and when that one is answered 200 the send has made
\* exactly two POSTs, printed exactly the retry diagnostic number 1, slept
\* once, logged one confirmation and returned success.
C8_RetryOnceThenDelivered ==
    LET posts == Requests("POST")
    IN  (retry_limit >= 1 /\ posts # <<>> /\ posts[1].r = "response" /\ posts[1].n = 500) =>
            /\ Len(posts) = 1 => (send_result = None /\ pc \in {"send_sleep", "send_message"})
            /\ (Len(posts) >= 2 /\ posts[2].r = "response" /\ posts[2].n = 200) =>
                  /\ Len(posts) = 2
                  /\ Diags("DIAG_SEND") = <<1>>
                  /\ Len(Sleeps("send")) = 1
                  /\ Len(Requests("CONFIRM")) = 1
                  /\ send_result = Ok
                  /\ pc = "exit"

\* the POSTs of a run were answered 500 and then 200
C8_Witness ==
    /\ retry_limit >= 1
    /\ Len(Requests("POST")) = 2
    /\ Requests("POST")[1].n = 500
    /\ Requests("POST")[2].n = 200
    /\ send_result = Ok

\* C9: with both variables set, a first GET answered 2xx with a complete
\* album and a first POST answered 2xx, the run is one GET, one POST and one
\* confirmation in that order, without sleep or diagnostic, and exits 0.
C9_HappyPath ==
    LET gets == Requests("GET")
        posts == Requests("POST")
    IN  (/\ env["BOT_ID"] /\ env["GROUP"]
         /\ gets # <<>> /\ Is2xx(gets[1]) /\ ~Malformed
         /\ posts # <<>> /\ Is2xx(posts[1])) =>
            /\ log = <<gets[1], posts[1], Event("CONFIRM", "", 0)>>
            /\ slept = 0
            /\ get_result = Ok
            /\ send_result = Ok
            /\ pc = "exit"
            /\ exit_code = 0

\* a run whose GET and POST were both answered 2xx at the first attempt
C9_Witness ==
    /\ Len(log) = 3
    /\ Is2xx(log[1]) /\ log[1].ev = "GET"
    /\ Is2xx(log[2]) /\ log[2].n = 204 /\ log[2].ev = "POST"
    /\ exit_code = 0

\* C10: fetch, format and send run in that order and a failed stage ends the
\* run: a POST is only issued once get_album has returned an Album, every
\* GET precedes every POST, the message is only built from a returned Album,
\* and a run whose fetch failed issues no POST and is over.
C10_StagesInOrder ==
    /\ \A i \in Indices("POST") :
          /\ get_result = Ok
          /\ album = AlbumOf(json)
          /\ ~Malformed
          /\ \A j \in Indices("GET") : j < i
    /\ message # NoMessage => get_result = Ok
    /\ get_result.tag \in {"Err", "Panic"} =>
          /\ Requests("POST") = <<>>
          /\ message = NoMessage
          /\ pc = "panic"
          /\ exit_code = 101
    /\ send_result.tag = "Err" => (pc = "panic" /\ exit_code = 101)

\* a fetch that needed a retry was followed by a send that needed one
C10_Witness ==
    /\ Len(Requests("GET")) = 2
    /\ Len(Requests("POST")) = 2
    /\ send_result = Ok

\* C11: when BOT_ID or GROUP is not set the run fails at startup: it never
\* issues a request and, once main has read the configuration, it has
\* panicked with the message naming the first missing variable.
C11_MissingConfigIsFatal ==
    (~env["BOT_ID"] \/ ~env["GROUP"]) =>
        /\ log = <<>>
        /\ pc \in {"main", "panic"}
        /\ pc = "panic" =>
              /\ exit_code = 101
              /\ panic_msg = (IF ~env["BOT_ID"] THEN "BOT_ID is not set"
                              ELSE "GROUP is not set")
        /\ get_result = None
        /\ send_result = None

\* a run that stopped because only GROUP was missing
C11_Witness ==
    /\ env["BOT_ID"]
    /\ ~env["GROUP"]
    /\ pc = "panic"
    /\ panic_msg = "GROUP is not set"

\* the POSTs that were answered without an error status
Acked == {i \in DOMAIN Requests("POST") : ~TransportError(Requests("POST")[i])}

\* the POSTs that were answered with a 2xx status
Acked2xx == {i \in DOMAIN Requests("POST") : Is2xx(Requests("POST")[i])}

\* C12 as stated: the message is delivered exactly once when send_message
\* returns success and not at all when it returns a failure.
C12_ExactlyOnceOrNever ==
    /\ send_result = Ok => delivered = 1
    /\ send_result.tag = "Err" => delivered = 0

\* C12 amended: when send_message returns success exactly one POST was
\* answered without an error status, the last one issued; when it returns a
\* failure, or has not returned, none was.  The webhook has delivered the
\* message at least once per 2xx answer and at most once per POST issued.
C12_AckedOnceOrNever ==
    /\ send_result = Ok => Acked = {Len(Requests("POST"))}
    /\ send_result # Ok => Acked = {}
    /\ Cardinality(Acked2xx) <= delivered
    /\ delivered <= Len(Requests("POST"))
    /\ Len(Requests("POST")) <= retry_limit + 1

\* a successful send that delivered the message twice: the webhook processed
\* the first POST, answered it 500, and processed the retry
C12_Witness ==
    /\ send_result = Ok
    /\ Len(Requests("POST")) = 2
    /\ delivered = 2

\* C13: a POST whose answer was lost after the webhook processed it (a
\* timeout of send) is retried while retries remain, which is how the message
\* comes to be delivered twice.
C13_LostResponseRetried ==
    LET posts == Requests("POST")
    IN  (/\ posts # <<>>
         /\ posts[Len(posts)].r = "timeout"
         /\ delivered >= 1
         /\ send_retry < retry_limit) =>
            /\ ~SendDone
            /\ pc \in {"send_sleep", "send_message"}

\* C14 as stated: a loop that has returned has printed one retry diagnostic
\* per failed attempt, numbered 1, 2, 3, ... and never above retry_limit.
C14_DiagPerFailure ==
    /\ GetDone =>
          /\ Len(Diags("DIAG_GET")) = GetFailed
          /\ \A i \in DOMAIN Diags("DIAG_GET") : Diags("DIAG_GET")[i] = i
          /\ Len(Diags("DIAG_GET")) <= retry_limit
    /\ SendDone =>
          /\ Len(Diags("DIAG_SEND")) = SendFailed
          /\ \A i \in DOMAIN Diags("DIAG_SEND") : Diags("DIAG_SEND")[i] = i
          /\ Len(Diags("DIAG_SEND")) <= retry_limit

\* C14 amended: a loop prints one retry diagnostic per failed attempt that it
\* retries: the diagnostics are numbered 1, 2, 3, ... up to the value of
\* retry, never above retry_limit, and a loop that has returned has printed
\* as many as it saw failures when it returned success, one fewer when it
\* returned a failure.
C14_DiagPerRetriedFailure ==
    /\ Len(Diags("DIAG_GET")) = get_retry
    /\ \A i \in DOMAIN Diags("DIAG_GET") : Diags("DIAG_GET")[i] = i
    /\ Len(Diags("DIAG_GET")) <= retry_limit
    /\ GetDone =>
          Len(Diags("DIAG_GET")) = GetFailed - (IF get_result.tag = "Ok" THEN 0 ELSE 1)
    /\ Len(Diags("DIAG_SEND")) = send_retry
    /\ \A i \in DOMAIN Diags("DIAG_SEND") : Diags("DIAG_SEND")[i] = i
    /\ Len(Diags("DIAG_SEND")) <= retry_limit
    /\ SendDone =>
          Len(Diags("DIAG_SEND")) = SendFailed - (IF send_result.tag = "Ok" THEN 0 ELSE 1)

\* a send that gave up at the limit: eleven failures, diagnostics 1 to 10
C14_Witness ==
    /\ retry_limit = RETRY_LIMIT
    /\ send_result.tag = "Err"
    /\ SendFailed = RETRY_LIMIT + 1
    /\ Len(Diags("DIAG_SEND")) = RETRY_LIMIT
    /\ Diags("DIAG_SEND")[RETRY_LIMIT] = RETRY_LIMIT

\* whether an error is the one a request produced
ErrorOf(err, req) ==
    \/ err.kind \in {"connect", "timeout"} /\ req.r = err.kind
    \/ err.kind = "status" /\ req.r = "response" /\ req.n = err.status
    \/ err.kind = "decode" /\ req.r = "response"

\* C15: the error a loop returns is the error of the last attempt it made,
\* and when the loop gave up because its retries were exhausted that is
\* attempt retry_limit + 1.
C15_LastErrorReturned ==
    /\ get_result.tag = "Err" =>
          LET gets == Requests("GET")
          IN  /\ get_result.err.attempt = Len(gets)
              /\ ErrorOf(get_result.err, gets[Len(gets)])
              /\ get_result.err.kind = "status" =>
                    (get_retry = retry_limit /\ get_result.err.attempt = retry_limit + 1)
    /\ send_result.tag = "Err" =>
          LET posts == Requests("POST")
          IN  /\ send_result.err.attempt = Len(posts)
              /\ ErrorOf(send_result.err, posts[Len(posts)])
              /\ send_result.err.kind = "status" =>
                    (send_retry = retry_limit /\ send_result.err.attempt = retry_limit + 1)

\* a send that gave up after three retries returns the error of attempt four
C15_Witness ==
    /\ retry_limit = 3
    /\ send_result.tag = "Err"
    /\ send_result.err.kind = "status"
    /\ send_result.err.attempt = 4
    /\ Len(Diags("DIAG_SEND")) = 3

\* C16: the confirmation is printed at most once, exactly in the runs where
\* send_message returns success, as the last output of the run, right after
\* a POST that was answered with a 2xx status, and never when the fetch
\* failed.
C16_ConfirmIffSuccess ==
    /\ Len(Requests("CONFIRM")) <= 1
    /\ Requests("CONFIRM") # <<>> <=> send_result = Ok
    /\ \A i \in Indices("CONFIRM") :
          /\ i = Len(log)
          /\ i > 1
          /\ log[i - 1].ev = "POST"
          /\ Is2xx(log[i - 1])
    /\ get_result.tag \in {"Err", "Panic"} => Requests("CONFIRM") = <<>>
    /\ send_result.tag = "Err" => Requests("CONFIRM") = <<>>

\* C17: after retry_limit failed attempts a loop still makes attempt
\* retry_limit + 1, and when that attempt succeeds the loop returns success
\* after exactly retry_limit sleeps.
C17_LastAttemptHonoured ==
    /\ (Len(Requests("GET")) = retry_limit /\ AllFailed(Requests("GET"))) => ~GetDone
    /\ (Len(Requests("POST")) = retry_limit /\ AllFailed(Requests("POST"))) => ~SendDone
    /\ (Len(Requests("GET")) = retry_limit + 1 /\ get_result = Ok) =>
          Len(Sleeps("get")) = retry_limit
    /\ (Len(Requests("POST")) = retry_limit + 1 /\ send_result = Ok) =>
          Len(Sleeps("send")) = retry_limit

\* C18: the send starts with its own retry counter at 0 whatever the fetch
\* consumed, and counts only its own retries; a run makes at most
\* retry_limit + 1 GETs, retry_limit + 1 POSTs and 2 * retry_limit sleeps:
\* 11, 11 and 20 with the hardcoded limit.
C18_IndependentBudgets ==
    /\ (pc = "send_message" /\ Requests("POST") = <<>>) => send_retry = 0
    /\ send_retry = Len(Requests("DIAG_SEND"))
    /\ get_retry = Len(Requests("DIAG_GET"))
    /\ Len(Requests("GET")) <= retry_limit + 1
    /\ Len(Requests("POST")) <= retry_limit + 1
    /\ Len(Requests("SLEEP")) <= 2 * retry_limit
    /\ slept <= 2 * retry_limit * SLEEP_SECS
    /\ retry_limit = RETRY_LIMIT =>
          /\ Len(Requests("GET")) <= 11
          /\ Len(Requests("POST")) <= 11
          /\ Len(Requests("SLEEP")) <= 20

\* the fetch succeeded at its last permitted attempt and the send then used
\* all of its own: 11 GETs, 11 POSTs, 20 sleeps
C18_Witness ==
    /\ retry_limit = RETRY_LIMIT
    /\ get_result = Ok
    /\ get_retry = RETRY_LIMIT
    /\ send_retry = RETRY_LIMIT
    /\ Len(Requests("GET")) = 11
    /\ Len(Requests("POST")) = 11
    /\ Len(Requests("SLEEP")) = 20
    /\ SendDone

\* the run is over: main returned or panicked
Terminated == pc \in {"exit", "panic"}

\* C19: every run of a thread that keeps running ends, in a successful
\* delivery or in a fatal failure.
C19_Terminates == <>Terminated

\* the longest run has ended: both loops used every retry and the send gave up
C19_Witness ==
    /\ Terminated
    /\ retry_limit = RETRY_LIMIT
    /\ Len(Requests("GET")) = RETRY_LIMIT + 1
    /\ Len(Requests("POST")) = RETRY_LIMIT + 1
    /\ send_result.tag = "Err"

\* the last request of one kind ended in a transport-layer error
LastFailed(ev) ==
    /\ Requests(ev) # <<>>
    /\ TransportError(Requests(ev)[Len(Requests(ev))])

\* C20: the u8 retry counters never overflow: always 0 <= retry <=
\* retry_limit <= 255 and no run panics on the addition; a counter changes
\* only by +1, only from a value below retry_limit, and only in a step in
\* which an attempt of its loop failed.
C20_NoOverflow ==
    /\ [](/\ 0 <= get_retry /\ get_retry <= retry_limit
          /\ 0 <= send_retry /\ send_retry <= retry_limit
          /\ retry_limit <= U8_MAX
          /\ panic_msg # "attempt to add with overflow")
    /\ [][/\ get_retry' # get_retry =>
                /\ get_retry < retry_limit
                /\ get_retry' = get_retry + 1
                /\ Len(Requests("GET"))' = Len(Requests("GET")) + 1
                /\ LastFailed("GET")'
          /\ send_retry' # send_retry =>
                /\ send_retry < retry_limit
                /\ send_retry' = send_retry + 1
                /\ Len(Requests("POST"))' = Len(Requests("POST")) + 1
                /\ LastFailed("POST")']_vars

\* with the limit 255 both counters reached 255 and the send then gave up
C20_Witness ==
    /\ retry_limit = U8_MAX
    /\ get_retry = U8_MAX
    /\ send_retry = U8_MAX
    /\ send_result.tag = "Err"
    /\ Len(Requests("POST")) = U8_MAX + 1

====
